---- MODULE Spec2Model ----
(***************************************************************************)
(* Status-transition engine of the solar-fleet pollers.                    *)
(*                                                                         *)
(* backend/device_status_polling.py and backend/status_polling.py are two  *)
(* separate programs (two Lambda functions).  Each has its own module      *)
(* level caches and evaluates its own kind of entity; they share only the  *)
(* DynamoDB table, under disjoint keys (Inverter<id>/STATUS and            *)
(* System#id/STATUS).  A behaviour of this model is a run of one of the    *)
(* two programs on one entity: the variable "program" says which.          *)
(*                                                                         *)
(* Time is a logical clock.  A timestamp string is a pair of its clock     *)
(* value and its textual format, because status_polling.py compares        *)
(* timestamps as strings.                                                  *)
(***************************************************************************)
EXTENDS Integers, Sequences, FiniteSets, TLC

\* ---------------------------------------------------------------- bounds
MaxTime == 1
MaxMsgs == 2
\* The most entities a scan lists.
MaxEntities == 4
\* batch_size is 32 in the source; the poll cycle is run here with its own
\* loop and a batch size small enough for a cycle to have several batches
\* and a last batch that is not full.
batch_size == 2
\* The most items the user-system index returns for a system, and the most
\* device records a user has.
MaxAccess == 2
MaxDevices == 2
\* How many answers the server has ready beyond the first MAX_RETRIES.
MaxRateLimits == 1

\* ------------------------------------------------------ program constants
MAX_RETRIES == 3
\* timedelta(hours=1): the clock unit of the model is the cache lifetime
CacheTTL == 1
\* today = utc_now - timedelta(hours=5)
EST_OFFSET == 5

\* ----------------------------------------------------------------- values
Statuses == {"green", "red", "offline"}
Programs == {"device_status_polling", "status_polling"}

\* A timestamp string.  fmt "iso" is datetime.isoformat()
\* (YYYY-MM-DDTHH:MM:SS.ffffff), fmt "api" is the telemetry API's
\* YYYY-MM-DDTHH:MM:SSZ, fmt "none" is Python's None.
NoTime == [t |-> -1, fmt |-> "none"]
IsoTime(t) == [t |-> t, fmt |-> "iso"]
ApiTime(t) == [t |-> t, fmt |-> "api"]
Times == 0..MaxTime
TimeStrings == {NoTime} \cup {IsoTime(t) : t \in Times} \cup {ApiTime(t) : t \in Times}

\* Python's string order on two timestamp strings of the same date layout:
\* the clock value decides; on equal clock values the "api" text, ending in
\* "Z", is greater than the "iso" text, which ends there or goes on with ".".
StrGreater(a, b) ==
    \/ a.t > b.t
    \/ a.t = b.t /\ a.fmt = "api" /\ b.fmt = "iso"

StrMax(S) == CHOOSE a \in S : \A b \in S : ~StrGreater(b, a)

\* ------------------------------------------------------- telemetry source
\* Results of api_request as its callers see them.
PyNone == [kind |-> "none"]
EmptyDict == [kind |-> "empty"]
Raised == [kind |-> "raise"]

\* One HTTP attempt: a 200 with a JSON body, a 204, a 429, or a
\* requests.exceptions.RequestException (timeout, connection error,
\* raise_for_status on another status, or the login inside get_jwt_token).
HttpOutcomes == {"200", "204", "429", "err"}
Scripts == [1..MAX_RETRIES -> HttpOutcomes]

\* Variant: a call whose attempts are used up raises.
RECURSIVE api_request_raising_when_exhausted(_, _, _)
api_request_raising_when_exhausted(script, body, attempt) ==
    IF attempt >= MAX_RETRIES
    THEN Raised
    ELSE LET r == script[attempt + 1] IN
         CASE r = "429" -> api_request_raising_when_exhausted(script, body, attempt + 1)
           [] r = "err" -> IF attempt < MAX_RETRIES - 1
                           THEN api_request_raising_when_exhausted(script, body, attempt + 1)
                           ELSE Raised
           [] r = "204" -> EmptyDict
           [] OTHER -> body

\* The loop over range(MAX_RETRIES): a 429 and a failure before the last
\* attempt go on to the next attempt; the loop running out returns None.
RECURSIVE api_request_from(_, _, _)
api_request_from(script, body, attempt) ==
    IF attempt >= MAX_RETRIES
    THEN PyNone
    ELSE LET r == script[attempt + 1] IN
         CASE r = "429" -> api_request_from(script, body, attempt + 1)
           [] r = "err" -> IF attempt < MAX_RETRIES - 1
                           THEN api_request_from(script, body, attempt + 1)
                           ELSE Raised
           [] r = "204" -> EmptyDict
           [] OTHER -> body

api_request(script, body) == api_request_from(script, body, 0)

\* The requests.get calls of the loop from one attempt on: one in each turn.
RECURSIVE api_request_gets_from(_, _)
api_request_gets_from(script, attempt) ==
    IF attempt >= MAX_RETRIES
    THEN 0
    ELSE LET r == script[attempt + 1] IN
         IF r = "429" \/ (r = "err" /\ attempt < MAX_RETRIES - 1)
         THEN 1 + api_request_gets_from(script, attempt + 1)
         ELSE 1

api_request_gets(script) == api_request_gets_from(script, 0)

\* Python truthiness of a response: None and {} are falsy.
Truthy(resp) == resp.kind = "json"

\* flowdata JSON: status is the "status" entry (
\* "null": JSON null, "online"/"offline": isOnline true/false); data is the
\* "data" entry ("null" or "dict"); channels is data.channels.
Channel(name, hasValue, value) ==
    [channelName |-> name, hasValue |-> hasValue, value |-> value]

FlowJson(status, data, channels) ==
    [kind |-> "json", status |-> status, data |-> data, channels |-> channels]

FlowBodies ==
    {FlowJson("offline", "dict", <<>>),
     FlowJson("null", "dict", <<>>),
     FlowJson("online", "null", <<>>),
     FlowJson("online", "dict", <<>>),
     FlowJson("online", "dict", <<Channel("PowerPV", FALSE, 0), Channel("PowerPV", TRUE, 1)>>),
     FlowJson("online", "dict", <<Channel("PowerLoad", TRUE, 1), Channel("PowerPV", TRUE, -1)>>),
     FlowJson("online", "dict", <<Channel("PowerPV", TRUE, 0), Channel("PowerPV", TRUE, 1)>>)}

\* What api_request can answer for a request whose 200 response carries
\* `body`, over every script of attempts.
JsonBody == [kind |-> "json"]
ApiOutcomes == {api_request(s, JsonBody) : s \in Scripts}
ApiResults(bodies) == {IF o = JsonBody THEN b ELSE o : o \in ApiOutcomes, b \in bodies}

\* get_device_flowdata / get_system_flowdata: the response, {} on exception.
get_device_flowdata(response) == IF response = Raised THEN EmptyDict ELSE response

FlowdataResults == {get_device_flowdata(r) : r \in ApiResults(FlowBodies)}

\* power = float(value) of the first PowerPV channel whose value is not None
RECURSIVE PowerPV(_, _)
PowerPV(channels, i) ==
    IF i > Len(channels) THEN 0
    ELSE IF channels[i].channelName = "PowerPV" /\ channels[i].hasValue
         THEN channels[i].value
         ELSE PowerPV(channels, i + 1)

\* ------------------------------------------------- error-code classification
\* The rows of the classification service's error_codes table.
StateCodes == {1, 2}
ErrorCodeRows == {[code |-> 1, colour |-> "red"], [code |-> 2, colour |-> "yellow"]}

\* A colour map is a function from state codes to colours; <<>> is the empty
\* dict.  The cache's 'codes' is None or a dict; only its truthiness is ever
\* read, so None is written as the empty dict too.
EmptyMap == <<>>
ColourMapOf(rows) == [c \in {r.code : r \in rows} |-> (CHOOSE r \in rows : r.code = c).colour]
IsRed(color_map, code) == code \in DOMAIN color_map /\ color_map[code] = "red"

\* One GET of the error_codes table: it fails, or returns the table's rows.
SupabaseFail == [ok |-> FALSE, rows |-> {}]
SupabaseOk == [ok |-> TRUE, rows |-> ErrorCodeRows]
SupabaseResults == {SupabaseFail, SupabaseOk}

NoCache == [codes |-> EmptyMap, expires_at |-> -1]

CacheFresh(c, t) == c.codes # EmptyMap /\ c.expires_at # -1 /\ t < c.expires_at

\* Variant: a failed request answers with the last map cached, however old.
get_all_error_codes_keeping_stale(c, t, svc) ==
    IF CacheFresh(c, t)
    THEN [color_map |-> c.codes, cache |-> c, how |-> "cached"]
    ELSE IF svc.ok
         THEN LET color_map == ColourMapOf(svc.rows) IN
              [color_map |-> color_map,
               cache |-> [codes |-> color_map, expires_at |-> t + CacheTTL],
               how |-> "fetched"]
         ELSE [color_map |-> c.codes, cache |-> c, how |-> "failed"]

\* Returns the map it answers with, the cache afterwards, and how it got the
\* map ("cached": no request made; "fetched"; "failed": the request raised).
get_all_error_codes_from_supabase(c, t, svc) ==
    IF CacheFresh(c, t)
    THEN [color_map |-> c.codes, cache |-> c, how |-> "cached"]
    ELSE IF svc.ok
         THEN LET color_map == ColourMapOf(svc.rows) IN
              [color_map |-> color_map,
               cache |-> [codes |-> color_map, expires_at |-> t + CacheTTL],
               how |-> "fetched"]
         ELSE [color_map |-> EmptyMap, cache |-> c, how |-> "failed"]

\* ------------------------------------------------------------ error messages
Message(code, t) == [stateCode |-> code, logDateTime |-> ApiTime(t)]

\* The messages of a response are read with "any" and "max" only, so the
\* list is kept as the set of its entries.
MessageSets(from, to) ==
    {S \in SUBSET {Message(c, t) : c \in StateCodes, t \in from..to} : Cardinality(S) <= MaxMsgs}

\* messages JSON: hasKey says whether the "messages" entry is there.
MessagesJson(hasKey, messages) == [kind |-> "json", hasKey |-> hasKey, messages |-> messages]

MessageBodies(from, to) ==
    {MessagesJson(FALSE, {})} \cup {MessagesJson(TRUE, S) : S \in MessageSets(from, to)}

\* messages_response and 'messages' in messages_response and messages_response['messages']
HasMessages(messages_response) ==
    Truthy(messages_response) /\ messages_response.hasKey /\ messages_response.messages # {}

\* get_device_messages: the response, {} on exception.
get_device_messages(response) == IF response = Raised THEN EmptyDict ELSE response

Max(a, b) == IF a > b THEN a ELSE b

\* -------------------------------------------------------------- status store
\* The STATUS item of the entity.  An attribute the item does not carry reads
\* as None (NoTime).
NoItem == [exists |-> FALSE]

StatusItem(status, power, changed, updated, resolved) ==
    [exists |-> TRUE, status |-> status, power |-> power,
     lastStatusChangeTime |-> changed, lastUpdated |-> updated,
     lastRedErrorResolvedTime |-> resolved]

\* The default both readers substitute when there is no item, and when
\* get_item raises.
DefaultStatus == StatusItem("green", 0, NoTime, NoTime, NoTime)

get_device_status_from_db(it, readOk) ==
    IF readOk /\ it.exists THEN it ELSE DefaultStatus

\* put_item replaces the whole item; on an exception nothing is written.
update_device_status_in_db(it, status, power, t, writeOk) ==
    IF writeOk
    THEN [ok |-> TRUE, item |-> StatusItem(status, power, IsoTime(t), IsoTime(t), NoTime)]
    ELSE [ok |-> FALSE, item |-> it]

\* ------------------------------------------------------------ the publisher
Effect(op, ok, newStatus, previousStatus, power) ==
    [op |-> op, ok |-> ok, newStatus |-> newStatus, previousStatus |-> previousStatus,
     power |-> power]

\* ------------------------------------------------- device-level evaluation
\* Variant: the messages are always asked for from target_date on.
DeviceFromTimestamp_target_date(last_updated, t) == ApiTime(Max(0, t - EST_OFFSET))

\* from_timestamp of the messages request: lastUpdated in the API's format
\* (to the second), else target_date.
DeviceFromTimestamp(last_updated, t) ==
    IF last_updated # NoTime THEN ApiTime(last_updated.t) ELSE ApiTime(Max(0, t - EST_OFFSET))

\* Variant: "power >= 0" where the code has "power > 0".
device_status_logic_power_ge(current_status, has_red_errors, power) ==
    IF has_red_errors \/ current_status = "red"
    THEN (IF power >= 0 THEN "green" ELSE "red")
    ELSE IF current_status = "offline" /\ power = 0 THEN "offline" ELSE "green"

\* Variant: without the offline carry-over clause.
device_status_logic_no_carry_over(current_status, has_red_errors, power) ==
    IF has_red_errors \/ current_status = "red"
    THEN (IF power > 0 THEN "green" ELSE "red")
    ELSE "green"

\* Variant: "current_status != 'red'" where the code has "current_status == 'red'".
device_status_logic_not_red(current_status, has_red_errors, power) ==
    IF has_red_errors \/ current_status # "red"
    THEN (IF power > 0 THEN "green" ELSE "red")
    ELSE IF current_status = "offline" /\ power = 0 THEN "offline" ELSE "green"

\* Variant: the offline carry-over does not look at the power.
device_status_logic_carry_over_any_power(current_status, has_red_errors, power) ==
    IF has_red_errors \/ current_status = "red"
    THEN (IF power > 0 THEN "green" ELSE "red")
    ELSE IF current_status = "offline" THEN "offline" ELSE "green"

\* Lines 476-495: the status of an online device.
device_status_logic(current_status, has_red_errors, power) ==
    IF has_red_errors \/ current_status = "red"
    THEN (IF power > 0 THEN "green" ELSE "red")
    ELSE IF current_status = "offline" /\ power = 0 THEN "offline" ELSE "green"

\* Lines 408-495 of process_device_status: from the status read, the flowdata
\* and the messages response to new_status and power.  The record also says
\* which branch was taken and what it did to the error-code cache.
device_evaluation(current_status, flowdata, messages_response, c, t, svc) ==
    LET is_online == Truthy(flowdata) /\ flowdata.status = "online"
        power == IF is_online /\ flowdata.data = "dict" THEN PowerPV(flowdata.channels, 1) ELSE 0
        has_messages == is_online /\ HasMessages(messages_response)
        lookup == IF has_messages
                  THEN get_all_error_codes_from_supabase(c, t, svc)
                  ELSE [color_map |-> EmptyMap, cache |-> c, how |-> "notcalled"]
        has_red_errors ==
            /\ has_messages
            /\ \E msg \in messages_response.messages : IsRed(lookup.color_map, msg.stateCode)
        new_status ==
            IF ~Truthy(flowdata) THEN "offline"
            ELSE IF ~is_online THEN "offline"
            ELSE device_status_logic(current_status, has_red_errors, power)
    IN [flow_empty |-> ~Truthy(flowdata),
        is_online |-> is_online,
        power |-> power,
        has_messages |-> has_messages,
        how |-> lookup.how,
        supabase_up |-> lookup.how = "notcalled" \/ svc.ok,
        color_map_empty |-> lookup.color_map = EmptyMap,
        has_red_errors |-> has_red_errors,
        new_red_max |-> NoTime,
        completed |-> TRUE,
        raised |-> FALSE,
        new_status |-> new_status,
        last_resolved_time |-> NoTime,
        cache |-> lookup.cache]

\* Variant: the publish does not wait for the outcome of the write.
device_commit_unchecked_write(it, current_status, new_status, power, t, writeOk, snsOk) ==
    LET update == update_device_status_in_db(it, new_status, power, t, writeOk)
        put == Effect("put_item", update.ok, new_status, current_status, power)
        publish == Effect("publish", snsOk, new_status, current_status, power)
    IN IF new_status # current_status
       THEN [item |-> update.item, effects |-> <<put, publish>>, result |-> snsOk]
       ELSE [item |-> update.item, effects |-> <<put>>, result |-> TRUE]

\* Variant: a failed publish puts the previous item back.
device_commit_rolling_back(it, current_status, new_status, power, t, writeOk, snsOk) ==
    LET update == update_device_status_in_db(it, new_status, power, t, writeOk)
        put == Effect("put_item", update.ok, new_status, current_status, power)
        publish == Effect("publish", snsOk, new_status, current_status, power)
    IN IF new_status # current_status
       THEN IF update.ok
            THEN [item |-> IF snsOk THEN update.item ELSE it,
                  effects |-> <<put, publish>>, result |-> snsOk]
            ELSE [item |-> update.item, effects |-> <<put>>, result |-> FALSE]
       ELSE [item |-> update.item, effects |-> <<put>>, result |-> TRUE]

\* Lines 505-529: write, then publish.  Returns the item afterwards, the
\* calls made in order, and the function's return value.
device_commit(it, current_status, new_status, power, t, writeOk, snsOk) ==
    LET update == update_device_status_in_db(it, new_status, power, t, writeOk)
        put == Effect("put_item", update.ok, new_status, current_status, power)
        publish == Effect("publish", snsOk, new_status, current_status, power)
    IN IF new_status # current_status
       THEN IF update.ok
            THEN [item |-> update.item, effects |-> <<put, publish>>, result |-> snsOk]
            ELSE [item |-> update.item, effects |-> <<put>>, result |-> FALSE]
       ELSE [item |-> update.item, effects |-> <<put>>, result |-> TRUE]

\* ------------------------------------------------- system-level evaluation
get_system_status_from_db(it, readOk) ==
    IF readOk /\ it.exists THEN it ELSE DefaultStatus

\* The item carries lastRedErrorResolvedTime only when the argument is truthy.
update_system_status_in_db(it, status, power, last_red_error_resolved_time, t, writeOk) ==
    IF writeOk
    THEN [ok |-> TRUE,
          item |-> StatusItem(status, power, IsoTime(t), IsoTime(t), last_red_error_resolved_time)]
    ELSE [ok |-> FALSE, item |-> it]

\* get_error_code_colors_from_supabase: the cached map cut down to the codes
\* asked for.
get_error_code_colors_from_supabase(error_codes, c, t, svc) ==
    IF error_codes = {}
    THEN [color_map |-> EmptyMap, cache |-> c, how |-> "notcalled"]
    ELSE LET all == get_all_error_codes_from_supabase(c, t, svc) IN
         [color_map |-> [code \in error_codes \cap DOMAIN all.color_map |-> all.color_map[code]],
          cache |-> all.cache,
          how |-> all.how]

\* Variant: without the sticky-red clause.
system_status_logic_not_sticky(current_status, has_red_errors, power) ==
    IF has_red_errors
    THEN (IF power > 0 THEN "green" ELSE "red")
    ELSE "green"

\* Lines 446-494: the status of an online system.  has_red_errors says that
\* red_errors is not empty (false when there are no messages at all).
system_status_logic(current_status, has_red_errors, power) ==
    IF has_red_errors
    THEN (IF power > 0 THEN "green" ELSE "red")
    ELSE (IF current_status # "red" \/ power > 0 THEN "green" ELSE "red")

\* Variant: the recovery with red errors takes utcnow(), as the recovery
\* without messages does.
system_resolved_time_utcnow(current_status, last_resolved_time, has_messages, red_messages, has_red_errors, power, t) ==
    IF ~has_messages
    THEN (IF current_status = "red" /\ power > 0 THEN IsoTime(t) ELSE last_resolved_time)
    ELSE IF has_red_errors /\ power > 0
         THEN IsoTime(t)
         ELSE last_resolved_time

\* Lines 446-494: last_resolved_time as the evaluation leaves it.
system_resolved_time(current_status, last_resolved_time, has_messages, red_messages, has_red_errors, power, t) ==
    IF ~has_messages
    THEN (IF current_status = "red" /\ power > 0 THEN IsoTime(t) ELSE last_resolved_time)
    ELSE IF has_red_errors /\ power > 0
         THEN StrMax({msg.logDateTime : msg \in red_messages})
         ELSE last_resolved_time

\* Lines 410-494 of process_system_status.  completed is FALSE when the
\* function leaves before computing a status: the early "return False" on
\* falsy flowdata, or an exception (raised) caught by the outer handler.
system_evaluation(current_status, last_resolved_time, flowdata, messages_response, c, t, svc) ==
    LET is_online == Truthy(flowdata) /\ flowdata.status = "online"
        \* flowdata.get('status', {}).get(...) and flowdata.get('data', {}).get(...)
        \* raise AttributeError on a JSON null; api_request may raise
        raised == /\ Truthy(flowdata)
                  /\ \/ flowdata.status = "null"
                     \/ is_online /\ flowdata.data = "null"
                     \/ is_online /\ messages_response = Raised
        asked == is_online /\ ~raised
        power == IF asked THEN PowerPV(flowdata.channels, 1) ELSE 0
        has_messages == asked /\ HasMessages(messages_response)
        lookup == IF has_messages
                  THEN get_error_code_colors_from_supabase(
                           {msg.stateCode : msg \in messages_response.messages}, c, t, svc)
                  ELSE [color_map |-> EmptyMap, cache |-> c, how |-> "notcalled"]
        red_messages == IF has_messages
                        THEN {msg \in messages_response.messages :
                                 IsRed(lookup.color_map, msg.stateCode)}
                        ELSE {}
        red_errors == {msg \in red_messages :
                          last_resolved_time = NoTime
                          \/ StrGreater(msg.logDateTime, last_resolved_time)}
        completed == Truthy(flowdata) /\ ~raised
        new_status ==
            IF ~is_online THEN "offline"
            ELSE system_status_logic(current_status, red_errors # {}, power)
        resolved ==
            IF ~is_online THEN last_resolved_time
            ELSE system_resolved_time(current_status, last_resolved_time, has_messages,
                                      red_messages, red_errors # {}, power, t)
    IN [flow_empty |-> ~Truthy(flowdata),
        is_online |-> is_online,
        power |-> power,
        has_messages |-> has_messages,
        how |-> lookup.how,
        supabase_up |-> lookup.how = "notcalled" \/ svc.ok,
        color_map_empty |-> lookup.color_map = EmptyMap,
        has_red_errors |-> red_errors # {},
        new_red_max |-> IF red_messages = {} THEN NoTime
                        ELSE StrMax({msg.logDateTime : msg \in red_messages}),
        completed |-> completed,
        raised |-> raised,
        new_status |-> IF completed THEN new_status ELSE "none",
        last_resolved_time |-> IF completed THEN resolved ELSE last_resolved_time,
        cache |-> lookup.cache]

\* Variant: written and published whether the status changed or not.
system_commit_every_time(it, current_status, new_status, power, last_resolved_time, t, writeOk, snsOk) ==
    LET update == update_system_status_in_db(it, new_status, power, last_resolved_time, t, writeOk)
        put == Effect("put_item", update.ok, new_status, current_status, power)
        publish == Effect("publish", snsOk, new_status, current_status, power)
    IN IF update.ok
       THEN [item |-> update.item, effects |-> <<put, publish>>, result |-> snsOk]
       ELSE [item |-> update.item, effects |-> <<put>>, result |-> FALSE]

\* Lines 504-526: write and publish on a change, nothing otherwise.
system_commit(it, current_status, new_status, power, last_resolved_time, t, writeOk, snsOk) ==
    LET update == update_system_status_in_db(it, new_status, power, last_resolved_time, t, writeOk)
        put == Effect("put_item", update.ok, new_status, current_status, power)
        publish == Effect("publish", snsOk, new_status, current_status, power)
    IN IF new_status # current_status
       THEN IF update.ok
            THEN [item |-> update.item, effects |-> <<put, publish>>, result |-> snsOk]
            ELSE [item |-> update.item, effects |-> <<put>>, result |-> FALSE]
       ELSE [item |-> it, effects |-> <<>>, result |-> TRUE]

\* -------------------------------------- what the telemetry source can answer
\* Every evaluation the telemetry source can cause, for a status read, a
\* lookback boundary, a time, a cache and an answer of the classification
\* service: over every flowdata result and every messages result (for a
\* device, messages from the boundary on; for a system, today's messages).
Caches ==
    {NoCache} \cup {[codes |-> ColourMapOf(ErrorCodeRows), expires_at |-> e] :
                       e \in 1..(MaxTime + CacheTTL)}

device_evaluations ==
    [current_status \in Statuses, from \in Times, t \in Times, c \in Caches,
     svc \in SupabaseResults |->
        {device_evaluation(current_status, f, get_device_messages(m), c, t, svc) :
            f \in FlowdataResults, m \in ApiResults(MessageBodies(from, t))}]

system_evaluations ==
    [current_status \in Statuses, last_resolved_time \in TimeStrings, t \in Times,
     c \in Caches, svc \in SupabaseResults |->
        {system_evaluation(current_status, last_resolved_time, f, m, c, t, svc) :
            f \in FlowdataResults, m \in ApiResults(MessageBodies(0, t))}]

\* ------------------------------------------------------------------- state
VARIABLES
    program,   \* which of the two pollers this run is
    now,       \* datetime.utcnow()
    item,      \* the entity's STATUS item in the table
    cache,     \* _error_codes_cache
    ev,        \* what the last evaluation read, computed and did
    lost,      \* history: the last transition written whose publish failed
    fixed,     \* repeated evaluation: the telemetry answers held fixed
    first,     \* repeated evaluation: the record of the first evaluation
    count,     \* repeated evaluation: evaluations made
    cycle,     \* the poll cycle of one invocation: listing, batches, workers, stats
    call,      \* the last api_request: what the server answered and what it returned
    jwt,       \* _jwt_token_cache and the last get_jwt_token
    notify,    \* the notification Lambdas: the invocation under way and what it did
    log        \* the messages the telemetry source has logged for the device

vars == <<program, now, item, cache, ev, lost, fixed, first, count, cycle, call, jwt, notify, log>>

\* The record of one evaluation: what it read, r (its computation), and done
\* (the store write and the publish it made, in order, and its return value).
Evaluation(prog, before, data, r, done) ==
    [program |-> prog,
     stored_status |-> IF before.exists THEN before.status ELSE "none",
     current_status |-> data.status,
     flow_empty |-> r.flow_empty,
     is_online |-> r.is_online,
     power |-> r.power,
     has_messages |-> r.has_messages,
     how |-> r.how,
     supabase_up |-> r.supabase_up,
     color_map_empty |-> r.color_map_empty,
     has_red_errors |-> r.has_red_errors,
     new_red_max |-> r.new_red_max,
     completed |-> r.completed,
     raised |-> r.raised,
     new_status |-> r.new_status,
     effects |-> done.effects,
     result |-> done.result]

\* No evaluation yet.
NoEval ==
    [program |-> "none", stored_status |-> "none", current_status |-> "none",
     flow_empty |-> FALSE, is_online |-> FALSE, power |-> 0, has_messages |-> FALSE,
     how |-> "notcalled", supabase_up |-> TRUE, color_map_empty |-> TRUE,
     has_red_errors |-> FALSE, new_red_max |-> NoTime, completed |-> FALSE,
     raised |-> FALSE, new_status |-> "none", effects |-> <<>>, result |-> FALSE]

\* No invocation yet, and no request yet.
NoCycle == [pc |-> "none"]
NoCall == [script |-> <<>>]
\* The token cache as the module creates it (token None, expires_at None) and
\* no call of get_jwt_token yet.
NoJwt ==
    [token |-> 0, expires_at |-> -1, result |-> [kind |-> "none"], logins |-> 0,
     at |-> -1, before |-> [token |-> 0, expires_at |-> -1], script |-> <<>>]
NoNotify == [pc |-> "none"]

NoLoss == [previousStatus |-> "none", newStatus |-> "none"]
\* No answers held fixed: the telemetry source answers as it will.
NoInputs == [flowdata |-> [kind |-> "any"], messages |-> [kind |-> "any"]]

Init ==
    /\ program \in Programs
    /\ now = 0
    /\ item = NoItem
    /\ cache = NoCache
    /\ ev = NoEval
    /\ lost = NoLoss
    /\ fixed = NoInputs
    /\ first = NoEval
    /\ count = 0
    /\ cycle = NoCycle
    /\ call = NoCall
    /\ jwt = NoJwt
    /\ notify = NoNotify
    /\ log = {}

\* Time passes.
Tick ==
    /\ now < MaxTime
    /\ now' = now + 1
    /\ UNCHANGED <<program, item, cache, ev, lost, fixed, first, count, cycle, call, jwt, notify, log>>

\* Lines 561-564 of process_devices_concurrently / 558-561 of
\* process_systems_concurrently: a poll cycle starts by loading the error codes.
preload_error_codes ==
    \E svc \in SupabaseResults :
        /\ cache' = get_all_error_codes_from_supabase(cache, now, svc).cache
        /\ UNCHANGED <<program, now, item, ev, lost, fixed, first, count, cycle, call, jwt, notify, log>>

\* The evaluations the telemetry source can cause now: any of its answers, or
\* the answers held fixed for a repeated evaluation.
DeviceAnswers(current_status, from_timestamp, svc) ==
    IF fixed = NoInputs
    THEN device_evaluations[current_status, from_timestamp.t, now, cache, svc]
    ELSE {device_evaluation(current_status, fixed.flowdata,
                            get_device_messages(fixed.messages), cache, now, svc)}

SystemAnswers(current_status, last_resolved_time, svc) ==
    IF fixed = NoInputs
    THEN system_evaluations[current_status, last_resolved_time, now, cache, svc]
    ELSE {system_evaluation(current_status, last_resolved_time, fixed.flowdata,
                            fixed.messages, cache, now, svc)}

\* process_device_status, whole: read, evaluate, write, publish.  ReadOks,
\* WriteOks and SnsOks are the outcomes get_item, put_item and sns.publish may
\* have, Svcs the answers of the classification service.
device_poll(ReadOks, Svcs, WriteOks, SnsOks) ==
    \E readOk \in (IF item.exists THEN ReadOks ELSE {TRUE}) :
        LET data == get_device_status_from_db(item, readOk)
            current_status == data.status
            from_timestamp == DeviceFromTimestamp(data.lastUpdated, now)
        IN \E r \in UNION {DeviceAnswers(current_status, from_timestamp, svc) : svc \in Svcs} :
           \E writeOk \in WriteOks :
           \E snsOk \in (IF r.new_status # current_status /\ writeOk THEN SnsOks ELSE {TRUE}) :
              LET done == device_commit(item, current_status, r.new_status, r.power, now,
                                        writeOk, snsOk)
              IN /\ item' = done.item
                 /\ cache' = r.cache
                 /\ ev' = Evaluation(program, item, data, r, done)
                 /\ UNCHANGED <<program, now, cycle, call, jwt, notify, log>>

\* process_system_status, whole.  An evaluation that did not complete
\* (early return, exception) writes and publishes nothing and returns False.
system_poll(ReadOks, Svcs, WriteOks, SnsOks) ==
    \E readOk \in (IF item.exists THEN ReadOks ELSE {TRUE}) :
        LET data == get_system_status_from_db(item, readOk)
            current_status == data.status
            last_resolved_time == data.lastRedErrorResolvedTime
        IN \E r \in UNION {SystemAnswers(current_status, last_resolved_time, svc) : svc \in Svcs} :
           LET changed == r.completed /\ r.new_status # current_status IN
           \E writeOk \in (IF changed THEN WriteOks ELSE {TRUE}) :
           \E snsOk \in (IF changed /\ writeOk THEN SnsOks ELSE {TRUE}) :
              LET done == IF r.completed
                          THEN system_commit(item, current_status, r.new_status, r.power,
                                             r.last_resolved_time, now, writeOk, snsOk)
                          ELSE [item |-> item, effects |-> <<>>, result |-> FALSE]
              IN /\ item' = done.item
                 /\ cache' = r.cache
                 /\ ev' = Evaluation(program, item, data, r, done)
                 /\ UNCHANGED <<program, now, cycle, call, jwt, notify, log>>

process_device_status ==
    /\ program = "device_status_polling"
    /\ device_poll(BOOLEAN, SupabaseResults, BOOLEAN, BOOLEAN)
    /\ UNCHANGED <<lost, fixed, first, count>>

process_system_status ==
    /\ program = "status_polling"
    /\ system_poll(BOOLEAN, SupabaseResults, BOOLEAN, BOOLEAN)
    /\ UNCHANGED <<lost, fixed, first, count>>

Next ==
    \/ Tick
    \/ preload_error_codes
    \/ process_device_status
    \/ process_system_status

Spec == Init /\ [][Next]_vars

\* ------------------------------------------- the same inputs, evaluated twice
\* The STATUS items the pollers leave behind up to time t: what a repeated
\* evaluation can start from.
DeviceItems(t) ==
    {NoItem} \cup {StatusItem(s, 0, IsoTime(u), IsoTime(u), NoTime) : s \in Statuses, u \in 0..t}

\* A system is red after a red message later than its resolved time, so a
\* red item's resolved time in the API's format is older than the item.
SystemItems(t) ==
    {NoItem} \cup
    UNION {{StatusItem(su[1], 0, IsoTime(su[2]), IsoTime(su[2]), r) :
               r \in {NoTime} \cup {IsoTime(v) : v \in 0..su[2]}
                     \cup {ApiTime(v) : v \in 0..(IF su[1] = "red" THEN su[2] - 1 ELSE su[2])}} :
           su \in Statuses \X (0..t)}

\* One flowdata result and one messages result, to be given to every
\* evaluation of the run.
FixedInputs(t) ==
    [flowdata : FlowdataResults, messages : ApiResults(MessageBodies(0, t))]

RepeatInit ==
    /\ program \in Programs
    /\ now \in Times
    /\ item \in (IF program = "device_status_polling" THEN DeviceItems(now) ELSE SystemItems(now))
    /\ cache = NoCache
    /\ ev = NoEval
    /\ lost = NoLoss
    /\ fixed \in FixedInputs(now)
    /\ first = NoEval
    /\ count = 0
    /\ cycle = NoCycle
    /\ call = NoCall
    /\ jwt = NoJwt
    /\ notify = NoNotify
    /\ log = {}

\* An evaluation of the device with the fixed inputs, store and publisher working.
repeat_device_status ==
    /\ program = "device_status_polling"
    /\ count < 2
    /\ device_poll({TRUE}, SupabaseResults, {TRUE}, {TRUE})
    /\ count' = count + 1
    /\ first' = IF count = 0 THEN ev' ELSE first
    /\ UNCHANGED <<lost, fixed>>

repeat_system_status ==
    /\ program = "status_polling"
    /\ count < 2
    /\ system_poll({TRUE}, SupabaseResults, {TRUE}, {TRUE})
    /\ count' = count + 1
    /\ first' = IF count = 0 THEN ev' ELSE first
    /\ UNCHANGED <<lost, fixed>>

RepeatNext ==
    \/ Tick
    \/ preload_error_codes
    \/ repeat_device_status
    \/ repeat_system_status

SpecRepeat == RepeatInit /\ [][RepeatNext]_vars

\* --------------------------------------------- poll cycles that go on for ever
\* lost after evaluation e: a transition written whose publish failed is lost;
\* a lost transition is delivered by a later successful publish of the same
\* transition.
Track(e, l) ==
    IF Len(e.effects) = 2 /\ ~e.effects[2].ok
    THEN [previousStatus |-> e.effects[2].previousStatus, newStatus |-> e.effects[2].newStatus]
    ELSE IF /\ Len(e.effects) = 2
            /\ e.effects[2].previousStatus = l.previousStatus
            /\ e.effects[2].newStatus = l.newStatus
         THEN NoLoss
         ELSE l

tracked_device_status ==
    /\ program = "device_status_polling"
    /\ device_poll(BOOLEAN, SupabaseResults, BOOLEAN, BOOLEAN)
    /\ lost' = Track(ev', lost)
    /\ UNCHANGED <<fixed, first, count>>

tracked_system_status ==
    /\ program = "status_polling"
    /\ system_poll(BOOLEAN, SupabaseResults, BOOLEAN, BOOLEAN)
    /\ lost' = Track(ev', lost)
    /\ UNCHANGED <<fixed, first, count>>

\* The evaluations of a cycle in which the store, the publisher and the
\* classification service all work.
healthy_device_status ==
    /\ program = "device_status_polling"
    /\ device_poll({TRUE}, {SupabaseOk}, {TRUE}, {TRUE})
    /\ lost' = Track(ev', lost)
    /\ UNCHANGED <<fixed, first, count>>

healthy_system_status ==
    /\ program = "status_polling"
    /\ system_poll({TRUE}, {SupabaseOk}, {TRUE}, {TRUE})
    /\ lost' = Track(ev', lost)
    /\ UNCHANGED <<fixed, first, count>>

FairNext ==
    \/ Tick
    \/ preload_error_codes
    \/ tracked_device_status
    \/ tracked_system_status

\* The scheduler invokes each poller at a fixed rate for ever, and the store
\* and the publisher work again and again.
FairSpec ==
    /\ Init
    /\ [][FairNext]_vars
    /\ WF_vars(healthy_device_status)
    /\ WF_vars(healthy_system_status)

\* ------------------------------------------------------------ the poll cycle
\* process_devices_concurrently / process_systems_concurrently under
\* lambda_handler.  The listed entities are numbered 1..n in the order of the
\* listing.  A worker is "waiting" (not submitted), "running" (submitted to
\* the pool: process_device_status is being executed), "done" (the call
\* returned success[e]) and "collected" (the main thread took its future from
\* as_completed and updated the stats).
total_batches(n) == (n + batch_size - 1) \div batch_size

start_idx(batch_num) == batch_num * batch_size

end_idx(batch_num, n) == IF start_idx(batch_num) + batch_size < n THEN start_idx(batch_num) + batch_size ELSE n

\* inverters[start_idx:end_idx]
batch_inverters(inverters, batch_num) ==
    SubSeq(inverters, start_idx(batch_num) + 1, end_idx(batch_num, Len(inverters)))

Range(seq) == {seq[i] : i \in DOMAIN seq}

NoStats == [processed |-> 0, errors |-> 0]

\* The state of a cycle that has listed n entities and enters its first batch.
Listed(n) ==
    [pc |-> "batch", jwt_ok |-> TRUE, scan_ok |-> TRUE, inverters |-> [i \in 1..n |-> i],
     batch_num |-> 0, submitted |-> 0,
     state |-> [e \in 1..n |-> "waiting"],
     success |-> [e \in 1..n |-> TRUE],
     started |-> [e \in 1..n |-> 0],
     stats |-> NoStats, statusCode |-> 0]

\* The state of a cycle that returned its stats before any batch.
ReturnedEarly(jwt_ok, scan_ok, errors) ==
    [pc |-> "returned", jwt_ok |-> jwt_ok, scan_ok |-> scan_ok, inverters |-> <<>>,
     batch_num |-> 0, submitted |-> 0, state |-> <<>>, success |-> <<>>, started |-> <<>>,
     stats |-> [processed |-> 0, errors |-> errors], statusCode |-> 200]

\* Lines 540-572 and lambda_handler: the token, the error codes, the listing.
\* get_jwt_token raising is caught by the outer handler, which counts one
\* error and returns the stats; get_all_inverters returns [] when the scan
\* raises; an empty listing returns the stats.  lambda_handler answers 200
\* with whatever process_devices_concurrently returns.
start_cycle(jwt_ok, scan_ok, n) ==
    IF ~jwt_ok THEN ReturnedEarly(FALSE, TRUE, 1)
    ELSE IF ~scan_ok THEN ReturnedEarly(TRUE, FALSE, 0)
    ELSE IF n = 0 THEN ReturnedEarly(TRUE, TRUE, 0)
    ELSE Listed(n)

\* executor.submit of the next entity of the batch: its evaluation starts.
submit_next(c) ==
    LET e == batch_inverters(c.inverters, c.batch_num)[c.submitted + 1] IN
    [c EXCEPT !.submitted = @ + 1,
              !.state[e] = "running",
              !.started[e] = @ + 1]

\* process_device_status returns for entity e: it catches every exception
\* and returns False, so a future never raises.
worker_returns(c, e, success) ==
    [c EXCEPT !.state[e] = "done", !.success[e] = success]

\* Variant: a failed evaluation ends the cycle.
collect_future_aborting(c, e) ==
    IF c.success[e]
    THEN [c EXCEPT !.state[e] = "collected",
                   !.stats = [processed |-> @.processed + 1, errors |-> @.errors]]
    ELSE [c EXCEPT !.state[e] = "collected",
                   !.stats = [processed |-> @.processed + 1, errors |-> @.errors + 1],
                   !.pc = "returned", !.statusCode = 200]

\* Variant: the future of a failed evaluation is never taken.
collect_future_waiting_for_success(c, e) ==
    IF c.success[e]
    THEN [c EXCEPT !.state[e] = "collected",
                   !.stats = [processed |-> @.processed + 1, errors |-> @.errors]]
    ELSE c

\* Lines 591-606: the main thread takes the completed future of e.
collect_future(c, e) ==
    [c EXCEPT !.state[e] = "collected",
              !.stats = [processed |-> @.processed + 1,
                         errors |-> IF c.success[e] THEN @.errors ELSE @.errors + 1]]

\* Lines 608-610 and the return: the next batch after the pause, or the end.
finish_batch(c) ==
    IF c.batch_num < total_batches(Len(c.inverters)) - 1
    THEN [c EXCEPT !.batch_num = @ + 1, !.submitted = 0]
    ELSE [c EXCEPT !.pc = "returned", !.statusCode = 200]

CurrentBatch == Range(batch_inverters(cycle.inverters, cycle.batch_num))

\* Variant: the batch is left as soon as one future was collected.
batch_joined_on_first_future(c) ==
    \E e \in Range(batch_inverters(c.inverters, c.batch_num)) : c.state[e] = "collected"

\* Lines 587-606: as_completed has yielded every future of the batch and the
\* "with ThreadPoolExecutor" block is left, which joins the pool's threads.
batch_joined(c) ==
    \A e \in Range(batch_inverters(c.inverters, c.batch_num)) : c.state[e] = "collected"

cycle_frame == UNCHANGED <<program, now, item, ev, lost, fixed, first, count, call, jwt, notify, log>>

lambda_handler ==
    /\ cycle.pc = "none"
    /\ \E jwt_ok \in BOOLEAN, scan_ok \in BOOLEAN, n \in 0..MaxEntities, svc \in SupabaseResults :
          /\ cycle' = start_cycle(jwt_ok, scan_ok, n)
          /\ cache' = IF jwt_ok THEN get_all_error_codes_from_supabase(cache, now, svc).cache
                      ELSE cache
    /\ cycle_frame

executor_submit ==
    /\ cycle.pc = "batch"
    /\ cycle.submitted < Len(batch_inverters(cycle.inverters, cycle.batch_num))
    /\ cycle' = submit_next(cycle)
    /\ UNCHANGED cache
    /\ cycle_frame

worker_done ==
    /\ cycle.pc = "batch"
    /\ \E e \in CurrentBatch, success \in BOOLEAN :
          /\ cycle.state[e] = "running"
          /\ cycle' = worker_returns(cycle, e, success)
    /\ UNCHANGED cache
    /\ cycle_frame

as_completed ==
    /\ cycle.pc = "batch"
    /\ cycle.submitted = Len(batch_inverters(cycle.inverters, cycle.batch_num))
    /\ \E e \in CurrentBatch :
          /\ cycle.state[e] = "done"
          /\ cycle' = collect_future(cycle, e)
    /\ UNCHANGED cache
    /\ cycle_frame

batch_completed ==
    /\ cycle.pc = "batch"
    /\ cycle.submitted = Len(batch_inverters(cycle.inverters, cycle.batch_num))
    /\ batch_joined(cycle)
    /\ cycle' = finish_batch(cycle)
    /\ UNCHANGED cache
    /\ cycle_frame

CycleNext ==
    \/ lambda_handler
    \/ executor_submit
    \/ worker_done
    \/ as_completed
    \/ batch_completed

SpecCycle == Init /\ [][CycleNext]_vars

\* The main thread and every worker thread get to run, and every external
\* call returns or fails within its timeout: each step of a cycle under way
\* is eventually taken.
FairSpecCycle ==
    /\ Init
    /\ [][CycleNext]_vars
    /\ WF_vars(executor_submit)
    /\ WF_vars(worker_done)
    /\ WF_vars(as_completed)
    /\ WF_vars(batch_completed)

\* ------------------------------------------------- the statistics of a cycle
\* The stats dict is shared by the worker threads of a batch and the main
\* thread.  update_stats_thread_safe does "stats[key] += increment" under
\* stats_lock: a load of stats[key] and a store of the sum, which are two
\* steps of the thread.  Thread 0 is the main thread, thread e the worker
\* evaluating entity e.
StatKeys ==
    {"devices_processed", "status_changes", "errors", "api_calls_made",
     "green_devices", "red_devices", "offline_devices"}

MainThread == 0
NoLock == -1
NotLoaded == -1

StatusKey(status) ==
    CASE status = "green" -> "green_devices"
      [] status = "red" -> "red_devices"
      [] OTHER -> "offline_devices"

Update(key, increment) == [key |-> key, increment |-> increment]

\* What one evaluation can come to: the status it computed ("none" when it
\* returned before computing one), whether it published a change event, and
\* its return value.  A change whose write or publish failed returns False;
\* an evaluation without a change returns True.
EvaluationOutcomes ==
    {[new_status |-> "none", published |-> FALSE, success |-> FALSE]}
    \cup {[new_status |-> st, published |-> FALSE, success |-> TRUE] : st \in Statuses}
    \cup {[new_status |-> st, published |-> TRUE, success |-> TRUE] : st \in Statuses}
    \cup {[new_status |-> st, published |-> FALSE, success |-> FALSE] : st \in Statuses}

\* Lines 497-522: the updates of the stats a worker makes, in order.
worker_updates(o) ==
    (IF o.new_status = "none" THEN <<>> ELSE <<Update(StatusKey(o.new_status), 1)>>)
    \o (IF o.published THEN <<Update("status_changes", 1)>> ELSE <<>>)

\* Lines 595-602: the updates the main thread makes for one future.
main_updates(success) ==
    <<Update("devices_processed", 1), Update("api_calls_made", 2)>>
    \o (IF success THEN <<>> ELSE <<Update("errors", 1)>>)

\* A cycle that listed n entities and enters its first batch.  computed,
\* published and failed count what the evaluations came to, as they happen.
Pool(n) ==
    [pc |-> "batch", inverters |-> [i \in 1..n |-> i], batch_num |-> 0, submitted |-> 0,
     state |-> [e \in 1..n |-> "waiting"],
     success |-> [e \in 1..n |-> TRUE],
     todo |-> [t \in 0..n |-> <<>>],
     loaded |-> [t \in 0..n |-> NotLoaded],
     lock |-> NoLock,
     stats |-> [k \in StatKeys |-> 0],
     computed |-> [st \in Statuses |-> 0],
     published |-> 0,
     failed |-> 0,
     statusCode |-> 0]

\* Variant: the lock is not taken.
stats_lock_ignored(c, t) == TRUE

\* "with stats_lock": thread t may enter when no thread holds the lock.
stats_lock_free(c, t) == c.lock = NoLock

\* process_device_status in worker e up to its return value: the outcome of
\* the evaluation decides the updates it is going to make.
worker_evaluates(c, e, o) ==
    [c EXCEPT !.state[e] = IF worker_updates(o) = <<>> THEN "done" ELSE "counting",
              !.success[e] = o.success,
              !.todo[e] = worker_updates(o),
              !.computed = IF o.new_status = "none" THEN @
                           ELSE [@ EXCEPT ![o.new_status] = @ + 1],
              !.published = IF o.published THEN @ + 1 ELSE @,
              !.failed = IF o.success THEN @ ELSE @ + 1]

\* Thread t enters the lock and loads stats[key].
stats_load(c, t) ==
    [c EXCEPT !.lock = t, !.loaded[t] = c.stats[Head(c.todo[t]).key]]

\* Thread t stores the sum and leaves the lock; a worker that made its last
\* update returns.
stats_store(c, t) ==
    [c EXCEPT !.stats[Head(c.todo[t]).key] = c.loaded[t] + Head(c.todo[t]).increment,
              !.lock = IF @ = t THEN NoLock ELSE @,
              !.loaded[t] = NotLoaded,
              !.todo[t] = Tail(@),
              !.state = IF t # MainThread /\ Len(c.todo[t]) = 1
                        THEN [@ EXCEPT ![t] = "done"] ELSE @]

\* executor.submit of the next entity of the batch.
submit_to_pool(c) ==
    LET e == batch_inverters(c.inverters, c.batch_num)[c.submitted + 1] IN
    [c EXCEPT !.submitted = @ + 1, !.state[e] = "running"]

\* as_completed yields the future of e to the main thread.
future_yielded(c, e) ==
    [c EXCEPT !.state[e] = "collected", !.todo[MainThread] = main_updates(c.success[e])]

pool_start ==
    /\ cycle.pc = "none"
    /\ \E n \in 1..MaxEntities : cycle' = Pool(n)
    /\ UNCHANGED cache
    /\ cycle_frame

pool_submit ==
    /\ cycle.pc = "batch"
    /\ cycle.submitted < Len(batch_inverters(cycle.inverters, cycle.batch_num))
    /\ cycle' = submit_to_pool(cycle)
    /\ UNCHANGED cache
    /\ cycle_frame

pool_worker_evaluates ==
    /\ cycle.pc = "batch"
    /\ \E e \in CurrentBatch, o \in EvaluationOutcomes :
          /\ cycle.state[e] = "running"
          /\ cycle' = worker_evaluates(cycle, e, o)
    /\ UNCHANGED cache
    /\ cycle_frame

update_stats_load ==
    /\ cycle.pc = "batch"
    /\ \E t \in DOMAIN cycle.todo :
          /\ cycle.todo[t] # <<>>
          /\ cycle.loaded[t] = NotLoaded
          /\ stats_lock_free(cycle, t)
          /\ cycle' = stats_load(cycle, t)
    /\ UNCHANGED cache
    /\ cycle_frame

update_stats_store ==
    /\ cycle.pc = "batch"
    /\ \E t \in DOMAIN cycle.todo :
          /\ cycle.loaded[t] # NotLoaded
          /\ cycle' = stats_store(cycle, t)
    /\ UNCHANGED cache
    /\ cycle_frame

pool_as_completed ==
    /\ cycle.pc = "batch"
    /\ cycle.submitted = Len(batch_inverters(cycle.inverters, cycle.batch_num))
    /\ cycle.todo[MainThread] = <<>>
    /\ \E e \in CurrentBatch :
          /\ cycle.state[e] = "done"
          /\ cycle' = future_yielded(cycle, e)
    /\ UNCHANGED cache
    /\ cycle_frame

pool_batch_completed ==
    /\ cycle.pc = "batch"
    /\ cycle.submitted = Len(batch_inverters(cycle.inverters, cycle.batch_num))
    /\ cycle.todo[MainThread] = <<>>
    /\ batch_joined(cycle)
    /\ cycle' = finish_batch(cycle)
    /\ UNCHANGED cache
    /\ cycle_frame

StatsNext ==
    \/ pool_start
    \/ pool_submit
    \/ pool_worker_evaluates
    \/ update_stats_load
    \/ update_stats_store
    \/ pool_as_completed
    \/ pool_batch_completed

SpecStats == Init /\ [][StatsNext]_vars

\* ------------------------------------------ notify_user.py: the fan-out
\* ADMIN_USER_ID and the other users.
AdminUser == "04484418-1051-70ea-d0d3-afb45eadb6e7"
Users == {"u1", "u2"}
UserIds == {AdminUser} \cup Users

\* A text is a sequence of characters.
Space == " "

RECURSIVE lstrip(_)
lstrip(text) == IF text # <<>> /\ Head(text) = Space THEN lstrip(Tail(text)) ELSE text

RECURSIVE rstrip(_)
rstrip(text) ==
    IF text # <<>> /\ text[Len(text)] = Space
    THEN rstrip(SubSeq(text, 1, Len(text) - 1))
    ELSE text

\* str.strip()
strip(text) == rstrip(lstrip(text))

\* The technician_email attribute as get_user_profile returns it: absent (no
\* profile, a failed read, or a profile without the attribute), a null, or a
\* string.
EmailTexts == {<<>>, <<" ">>, <<"a">>, <<"a", " ">>, <<"b">>}
ProfileEmails ==
    {[kind |-> "absent", text |-> <<>>], [kind |-> "null", text |-> <<>>]}
    \cup {[kind |-> "str", text |-> t] : t \in EmailTexts}
NotRead == [kind |-> "notread", text |-> <<>>]

\* user_profile.get('technician_email', '')
profile_get_technician_email(email) == IF email.kind = "absent" THEN <<>> ELSE email.text

\* The sequences over S of length n at most.
SeqsUpTo(S, n) == UNION {[1..k -> S] : k \in 0..n}

\* The items of the user-system index, by their userId.
AccessLists == SeqsUpTo(UserIds, MaxAccess)

InSeq(x, seq) == \E i \in DOMAIN seq : seq[i] = x

RECURSIVE append_new(_, _)
append_new(list, items) ==
    IF items = <<>> THEN list
    ELSE append_new(IF InSeq(Head(items), list) THEN list ELSE Append(list, Head(items)),
                    Tail(items))

\* The admin first, then the users of the index not yet in the list; the
\* admin alone when the query raises.
get_users_with_system_access(items, queryOk) ==
    IF queryOk THEN append_new(<<AdminUser>>, items) ELSE <<AdminUser>>

\* A pushToken attribute: none, or a string, of which only the beginning is
\* ever tested.
NoToken == [prefix |-> "", rest |-> ""]
ExpoToken(rest) == [prefix |-> "ExponentPushToken[", rest |-> rest]
PushTokens == {ExpoToken("a"), ExpoToken("b"), [prefix |-> "fcm:", rest |-> "c"]}
DeviceLists == SeqsUpTo({NoToken} \cup PushTokens, MaxDevices)

HasToken(token) == token # NoToken

\* The device records with a pushToken; none when the query raises.
get_user_devices(devices, queryOk) ==
    IF queryOk THEN SelectSeq(devices, HasToken) ELSE <<>>

\* Variant: every token of every device record is added.
collect_tokens_with_duplicates(all_expo_tokens, devices) == all_expo_tokens \o devices

\* Lines 313-318: "if device['pushToken'] not in all_expo_tokens".
collect_tokens(all_expo_tokens, devices) == append_new(all_expo_tokens, devices)

\* token.startswith('ExponentPushToken[')
IsExpoToken(token) == token.prefix = "ExponentPushToken["

\* max_retries of create_incident_record and create_technician_schedule
max_retries == 3
RetryScripts == [1..max_retries -> BOOLEAN]

\* The first attempt of the script that succeeds, 0 when none does.
RECURSIVE first_success(_, _)
first_success(script, attempt) ==
    IF attempt > max_retries THEN 0
    ELSE IF script[attempt] THEN attempt
    ELSE first_success(script, attempt + 1)

\* create_technician_schedule: True when an attempt registered the schedule.
create_technician_schedule(sched) == first_success(sched, 1) # 0

\* create_incident_record: put_item is retried; after the put that succeeds
\* the schedule is asked for, and True is returned whatever it answered.
create_incident_record(put, sched) ==
    IF first_success(put, 1) # 0
    THEN [stored |-> TRUE, scheduled |-> create_technician_schedule(sched), result |-> TRUE]
    ELSE [stored |-> FALSE, scheduled |-> FALSE, result |-> FALSE]

NotifyStats ==
    [users_found |-> 0, devices_found |-> 0, notifications_sent |-> 0,
     incidents_created |-> 0, errors |-> 0]

\* The fan-out for one SNS message: hasDeviceId says that the message carries
\* a deviceId (the device poller's events do, the system poller's do not).
Fanout(hasDeviceId, user_ids) ==
    [pc |-> "incidents", handler |-> "notify_user", hasDeviceId |-> hasDeviceId,
     user_ids |-> user_ids, i |-> 1,
     profiles |-> <<>>, incidents |-> <<>>,
     all_expo_tokens |-> <<>>, posted |-> FALSE, batch |-> <<>>,
     stats |-> [NotifyStats EXCEPT !.users_found = Len(user_ids)]]

\* Lines 255-274: a message without deviceId is an error and ends the fan-out.
fanout_start(hasDeviceId, user_ids) ==
    IF hasDeviceId
    THEN Fanout(TRUE, user_ids)
    ELSE [Fanout(FALSE, <<>>) EXCEPT !.pc = "done", !.stats.errors = 1]

\* The loop index moves on; after the last user the next loop starts.
next_user(f, after) ==
    IF f.i < Len(f.user_ids) THEN [f EXCEPT !.i = @ + 1] ELSE [f EXCEPT !.i = 1, !.pc = after]

\* Variant: the technician email is not trimmed.
has_technician_email_untrimmed(email) == profile_get_technician_email(email) # <<>>

\* Lines 296-298: technician_email = user_profile.get(...).strip(), then
\* "if technician_email".
has_technician_email(email) == strip(profile_get_technician_email(email)) # <<>>

\* Variant: incidents_created counts the incidents that create_incident_record
\* reported as created.
count_incident_if_created(r) == IF r.result THEN 1 ELSE 0

\* Lines 300-301: create_incident_record's return value is not looked at.
count_incident(r) == 1

\* Lines 292-308, one turn of the loop, for user_ids[i].  A null
\* technician_email makes .strip() raise: the function's handler counts an
\* error and returns the stats.
incident_step(f, email, put, sched) ==
    LET user_id == f.user_ids[f.i] IN
    IF user_id = AdminUser
    THEN next_user([f EXCEPT !.profiles = Append(@, NotRead), !.stats.errors = @ + 1],
                   "tokens")
    ELSE IF email.kind = "null"
    THEN [f EXCEPT !.profiles = Append(@, email), !.stats.errors = @ + 1, !.pc = "done"]
    ELSE IF has_technician_email(email)
    THEN LET r == create_incident_record(put, sched) IN
         next_user([f EXCEPT !.profiles = Append(@, email),
                             !.incidents = Append(@, [user_id |-> user_id,
                                                      stored |-> r.stored,
                                                      scheduled |-> r.scheduled,
                                                      result |-> r.result]),
                             !.stats.incidents_created = @ + count_incident(r)],
                   "tokens")
    ELSE next_user([f EXCEPT !.profiles = Append(@, email)], "tokens")

DevicePushTokens(devices) == devices

\* Lines 310-320, one turn of the loop.
tokens_step(f, devices) ==
    next_user([f EXCEPT !.all_expo_tokens = collect_tokens(@, DevicePushTokens(devices)),
                        !.stats.devices_found = @ + Len(devices)],
              "send")

\* send_expo_notifications: the messages, and the return value for the
\* gateway's answer ("ok", "errors": a ticket with an error, "raise").
ExpoAnswers == {"ok", "errors", "raise"}

send_expo_notifications(tokens, answer) ==
    LET messages == SelectSeq(tokens, IsExpoToken) IN
    IF messages = <<>>
    THEN [posted |-> FALSE, batch |-> <<>>, result |-> TRUE]
    ELSE [posted |-> TRUE, batch |-> messages, result |-> answer = "ok"]

\* Lines 322-345.
send_step(f, answer) ==
    IF f.all_expo_tokens = <<>>
    THEN [f EXCEPT !.pc = "done"]
    ELSE LET sent == send_expo_notifications(f.all_expo_tokens, answer) IN
         [f EXCEPT !.pc = "done", !.posted = sent.posted, !.batch = sent.batch,
                   !.stats.notifications_sent =
                       IF sent.result THEN Len(f.all_expo_tokens) ELSE @,
                   !.stats.errors =
                       IF sent.result THEN @ ELSE @ + Len(f.all_expo_tokens)]

notify_frame ==
    UNCHANGED <<program, now, item, cache, ev, lost, fixed, first, count, cycle, call, jwt, log>>

\* lambda_handler with one SNS record, up to the list of users.
notify_user_receives ==
    /\ notify.pc = "none"
    /\ \E hasDeviceId \in BOOLEAN, queryOk \in BOOLEAN, items \in AccessLists :
          notify' = fanout_start(hasDeviceId, get_users_with_system_access(items, queryOk))
    /\ notify_frame

notify_user_incident ==
    /\ notify.pc = "incidents"
    /\ \E email \in ProfileEmails, put \in RetryScripts, sched \in RetryScripts :
          notify' = incident_step(notify, email, put, sched)
    /\ notify_frame

notify_user_tokens ==
    /\ notify.pc = "tokens"
    /\ \E queryOk \in BOOLEAN, devices \in DeviceLists :
          notify' = tokens_step(notify, get_user_devices(devices, queryOk))
    /\ notify_frame

notify_user_send ==
    /\ notify.pc = "send"
    /\ \E answer \in ExpoAnswers : notify' = send_step(notify, answer)
    /\ notify_frame

NotifyNext ==
    \/ notify_user_receives
    \/ notify_user_incident
    \/ notify_user_tokens
    \/ notify_user_send

SpecNotify == Init /\ [][NotifyNext]_vars

\* ------------------------------- notify_technician.py: technician escalation
\* What the scheduler hands to the target: the Input of the schedule that
\* create_technician_schedule registered.
ScheduleInput(incident_id, user_id) == [incident_id |-> incident_id, user_id |-> user_id]

\* An SNS record: its message parses or not; a parsed message has its three
\* required fields or lacks one.
SnsMessage(new_status, complete) == [newStatus |-> new_status, complete |-> complete]
SnsRecord(parses, message) == [EventSource |-> "aws:sns", parses |-> parses, Message |-> message]
SnsEvent(record) == [Records |-> <<record>>]

\* event.get('Records', [])
event_records(event) == IF "Records" \in DOMAIN event THEN event.Records ELSE <<>>

should_notify_technician(new_status) == new_status \in {"offline", "red"}

TechnicianStats ==
    [messages_processed |-> 0, users_found |-> 0, technician_emails_found |-> 0,
     emails_sent |-> 0, errors |-> 0]

\* The profile reads of get_technician_emails: a read raises, or answers as
\* the profile of notify_user does.
TechnicianProfiles == ProfileEmails \cup {[kind |-> "raised", text |-> <<>>]}

\* One turn of the loop of get_technician_emails: the stripped address joins
\* the set when the attribute is a string that is not blank.
add_technician_email(technician_emails, profile) ==
    IF profile.kind = "str" /\ strip(profile.text) # <<>>
    THEN technician_emails \cup {strip(profile.text)}
    ELSE technician_emails

\* The invocation: the event, what the store holds when it arrives (the
\* entity's status, the technician_email of the user of the incident), and
\* the handler's progress.
Escalation(event, entity_status, configured) ==
    [pc |-> "returned", handler |-> "notify_technician", event |-> event,
     entity_status |-> entity_status, configured |-> configured,
     user_ids |-> <<>>, i |-> 1, technician_emails |-> {}, pending |-> {},
     sent |-> <<>>, stats |-> TechnicianStats, statusCode |-> 200]

\* lambda_handler up to the list of users of process_technician_notification:
\* without a record nothing is processed; a record that does not parse is an
\* error; a message that lacks a field is an error of its own statistics.
escalation_start(event, entity_status, configured, user_ids) ==
    LET e == Escalation(event, entity_status, configured)
        records == event_records(event)
    IN  IF records = <<>> THEN e
        ELSE IF ~records[1].parses THEN [e EXCEPT !.stats.errors = 1]
        ELSE IF ~records[1].Message.complete
             THEN [e EXCEPT !.stats.messages_processed = 1, !.stats.errors = 1]
        ELSE IF ~should_notify_technician(records[1].Message.newStatus)
             THEN [e EXCEPT !.stats.messages_processed = 1]
        ELSE [e EXCEPT !.pc = "emails", !.user_ids = user_ids,
                       !.stats.messages_processed = 1,
                       !.stats.users_found = Len(user_ids)]

\* One profile read; after the last one the emails are sent, or the handler
\* returns when there is none.
emails_step(e, profile) ==
    LET emails == add_technician_email(e.technician_emails, profile)
        read == [e EXCEPT !.technician_emails = emails]
    IN  IF e.i < Len(e.user_ids) THEN [read EXCEPT !.i = @ + 1]
        ELSE [read EXCEPT !.stats.technician_emails_found = Cardinality(emails),
                          !.pending = emails,
                          !.pc = IF emails = {} THEN "returned" ELSE "send"]

\* send_technician_emails, one recipient: a send that raises is counted and
\* the loop goes on. After the last recipient the statistics are settled.
send_email_step(e, email, ok) ==
    LET sent == Append(e.sent, [to |-> email, ok |-> ok])
        left == e.pending \ {email}
        success == \A k \in DOMAIN sent : sent[k].ok
        n == Cardinality(e.technician_emails)
        mailed == [e EXCEPT !.sent = sent, !.pending = left]
    IN  IF left # {} THEN mailed
        ELSE [mailed EXCEPT !.pc = "returned",
                            !.stats.emails_sent = IF success THEN n ELSE @,
                            !.stats.errors = IF success THEN @ ELSE @ + n]

IncidentIds == {"i1"}

\* The events the handler is invoked with: the scheduler's, or a record of
\* the status-change topic.
TechnicianEvents ==
    {ScheduleInput(id, u) : id \in IncidentIds, u \in Users}
    \cup {SnsEvent(SnsRecord(FALSE, SnsMessage("green", FALSE)))}
    \cup {SnsEvent(SnsRecord(TRUE, SnsMessage(s, c))) : s \in Statuses, c \in BOOLEAN}

notify_technician_receives ==
    /\ notify.pc = "none"
    /\ \E event \in TechnicianEvents, entity_status \in Statuses,
          configured \in ProfileEmails, queryOk \in BOOLEAN, items \in AccessLists :
          notify' = escalation_start(event, entity_status, configured,
                                     get_users_with_system_access(items, queryOk))
    /\ notify_frame

notify_technician_emails ==
    /\ notify.pc = "emails"
    /\ \E profile \in TechnicianProfiles : notify' = emails_step(notify, profile)
    /\ notify_frame

notify_technician_send ==
    /\ notify.pc = "send"
    /\ \E email \in notify.pending, ok \in BOOLEAN :
          notify' = send_email_step(notify, email, ok)
    /\ notify_frame

TechnicianNext ==
    \/ notify_technician_receives
    \/ notify_technician_emails
    \/ notify_technician_send

SpecTechnician == Init /\ [][TechnicianNext]_vars

\* ---------------------------------------- the device's message lookback
\* The telemetry source logs a message for the device.
device_logs_message ==
    /\ Cardinality(log) < MaxMsgs
    /\ \E code \in StateCodes : log' = log \cup {Message(code, now)}
    /\ log' # log
    /\ UNCHANGED <<program, now, item, cache, ev, lost, fixed, first, count, cycle, call, jwt, notify>>

\* The answer to the messages request: the logged messages from
\* from_timestamp on.
MessagesSince(from_timestamp) ==
    MessagesJson(TRUE, {m \in log : m.logDateTime.t >= from_timestamp.t})

\* The flowdata answers of these evaluations: none, a device that is not
\* online, and an online device with power 0, above 0 and below 0.
LookbackFlowdata ==
    {EmptyDict,
     FlowJson("offline", "dict", <<>>),
     FlowJson("online", "dict", <<>>),
     FlowJson("online", "dict", <<Channel("PowerPV", FALSE, 0), Channel("PowerPV", TRUE, 1)>>),
     FlowJson("online", "dict", <<Channel("PowerLoad", TRUE, 1), Channel("PowerPV", TRUE, -1)>>)}

\* process_device_status, whole, against that log.  The record of the
\* evaluation also keeps whether get_item answered and the from_timestamp
\* computed from lastUpdated.
logged_device_status ==
    /\ program = "device_status_polling"
    /\ \E readOk \in (IF item.exists THEN BOOLEAN ELSE {TRUE}) :
        LET data == get_device_status_from_db(item, readOk)
            current_status == data.status
            from_timestamp == DeviceFromTimestamp(data.lastUpdated, now)
            answers == {get_device_messages(m) : m \in ApiResults({MessagesSince(from_timestamp)})}
        IN \E r \in {device_evaluation(current_status, f, m, cache, now, svc) :
                       f \in LookbackFlowdata, m \in answers, svc \in SupabaseResults} :
              \E writeOk \in BOOLEAN :
              \E snsOk \in (IF r.new_status # current_status /\ writeOk THEN BOOLEAN ELSE {TRUE}) :
                 LET done == device_commit(item, current_status, r.new_status, r.power, now,
                                           writeOk, snsOk)
                 IN /\ item' = done.item
                    /\ cache' = r.cache
                    /\ ev' = Evaluation(program, item, data, r, done)
                              @@ [read_ok |-> readOk, from_timestamp |-> from_timestamp]
    /\ UNCHANGED <<program, now, lost, fixed, first, count, cycle, call, jwt, notify, log>>

LookbackNext ==
    \/ Tick
    \/ device_logs_message
    \/ logged_device_status

SpecLookback == Init /\ [][LookbackNext]_vars

\* ------------------------------------------------------ one get_jwt_token
\* timedelta(hours=1), in the unit of now.
JwtTTL == 1

\* A jwtToken of a login answer: 0 is a value that is not truthy.
JwtTokens == 0..2

\* What one POST of the login ends in: a 200 whose JSON has a jwtToken, a 200
\* whose JSON has none, or a requests exception (no connection, a timeout,
\* raise_for_status on another status).
LoginOutcomes ==
    {[kind |-> "token", token |-> t] : t \in JwtTokens}
    \cup {[kind |-> "missing_field"], [kind |-> "request_exception"]}
LoginScripts == [1..MAX_RETRIES -> LoginOutcomes]

\* The test of the cache at lines 104-105.
jwt_cache_valid_until_expiry(c, t) == c.token # 0 /\ c.expires_at # -1 /\ t <= c.expires_at

jwt_cache_valid(c, t) == c.token # 0 /\ c.expires_at # -1 /\ t < c.expires_at

\* The loop over range(MAX_RETRIES) from one attempt on: a token is cached and
\* returned; the ValueError of a missing field is raised at once; a requests
\* exception is retried until the last attempt, which raises it.
RECURSIVE login_from(_, _, _, _)
login_from(c, t, script, attempt) ==
    LET answer == script[attempt]
    IN  IF answer.kind = "token"
        THEN [cache |-> [token |-> answer.token, expires_at |-> t + JwtTTL],
              result |-> answer, logins |-> attempt]
        ELSE IF answer.kind = "missing_field" \/ attempt >= MAX_RETRIES
        THEN [cache |-> c, result |-> Raised, logins |-> attempt]
        ELSE login_from(c, t, script, attempt + 1)

get_jwt_token(c, t, script) ==
    IF jwt_cache_valid(c, t)
    THEN [cache |-> c, result |-> [kind |-> "token", token |-> c.token], logins |-> 0]
    ELSE login_from(c, t, script, 1)

\* One call of get_jwt_token, whole: the cache after it, what it returned,
\* the logins it made, and the cache and the time it started from.
jwt_call ==
    /\ \E script \in LoginScripts :
          LET c == [token |-> jwt.token, expires_at |-> jwt.expires_at]
              r == get_jwt_token(c, now, script)
          IN  jwt' = [token |-> r.cache.token, expires_at |-> r.cache.expires_at,
                      result |-> r.result, logins |-> r.logins,
                      at |-> now, before |-> c, script |-> script]
    /\ UNCHANGED <<program, now, item, cache, ev, lost, fixed, first, count, cycle, call, notify, log>>

JwtNext ==
    \/ jwt_call
    \/ Tick

SpecJwt == Init /\ [][JwtNext]_vars

\* ---------------------------------------------------------- one api_request
\* What the server answers to successive GETs of one request, as far as it is
\* asked: api_request reads at most the first MAX_RETRIES answers.
ServerAnswers == [1..(MAX_RETRIES + MaxRateLimits) -> HttpOutcomes]

\* One call of api_request, whole: the answers the server had ready, what
\* the call returned and the GETs it made; and, the request being the one for
\* a device's flowdata whose 200 carries `body`, what get_device_flowdata
\* handed to process_device_status and the status and power computed from it.
\* A call keeps nothing for the next one, so one call is followed from Init.
api_call ==
    /\ call = NoCall
    /\ \E script \in ServerAnswers, body \in FlowBodies, current_status \in Statuses :
          LET flowdata == get_device_flowdata(api_request(script, body))
              r == device_evaluation(current_status, flowdata, MessagesJson(FALSE, {}),
                                     cache, now, SupabaseFail)
          IN  call' = [script |-> script, result |-> api_request(script, JsonBody),
                       requests |-> api_request_gets(script),
                       flowdata |-> flowdata,
                       new_status |-> r.new_status, power |-> r.power]
    /\ UNCHANGED <<program, now, item, cache, ev, lost, fixed, first, count, cycle, jwt, notify, log>>

ApiNext == api_call

SpecApi == Init /\ [][ApiNext]_vars

\* ------------------------------------------------------------- properties
\* An evaluation has been made.
Evaluated == ev.program # "none"

\* The positions of the store writes and of the publish calls among the
\* calls of evaluation e, and whether an event went out.
Puts(e) == {i \in DOMAIN e.effects : e.effects[i].op = "put_item"}
Publishes(e) == {i \in DOMAIN e.effects : e.effects[i].op = "publish"}
WriteSucceeded(e) == \E i \in Puts(e) : e.effects[i].ok
EventPublished(e) == \E i \in Publishes(e) : e.effects[i].ok
NothingFailed(e) == \A i \in DOMAIN e.effects : e.effects[i].ok

\* C1: in both evaluators, empty flowdata or isOnline false gives status
\* offline with power 0 whatever was stored; a stored-green entity with empty
\* flowdata ends stored offline with power 0 and with one green->offline event
\* (the store and the publisher working).
C1_OfflineWithoutFlowdata ==
    (Evaluated /\ (ev.flow_empty \/ (~ev.is_online /\ ~ev.raised))) =>
        /\ ev.new_status = "offline"
        /\ ev.power = 0
        /\ (ev.flow_empty /\ ev.stored_status = "green" /\ ev.current_status = "green"
            /\ NothingFailed(ev)) =>
               /\ item.exists /\ item.status = "offline" /\ item.power = 0
               /\ \E i \in Publishes(ev) :
                     /\ ev.effects[i].previousStatus = "green"
                     /\ ev.effects[i].newStatus = "offline"

\* C2 as stated: an evaluation publishes a change event exactly when the
\* status it computed differs from the status it read from the store, and
\* then exactly one.
C2_EventIffStatusDiffers ==
    (Evaluated /\ ev.completed) =>
        /\ Cardinality(Publishes(ev)) <= 1
        /\ EventPublished(ev) <=> (ev.new_status # ev.current_status)

\* C2 amended: an evaluation publishes at most one change event, and it
\* publishes one exactly when the status it computed differs from the status
\* it read, the status write succeeded and the publish call succeeded; the
\* event carries the status read and the status computed.
C2_EventIffDiffersWrittenAndSent ==
    Evaluated =>
        /\ Cardinality(Publishes(ev)) <= 1
        /\ EventPublished(ev) <=>
              /\ ev.completed
              /\ ev.new_status # ev.current_status
              /\ WriteSucceeded(ev)
              /\ \A i \in Publishes(ev) : ev.effects[i].ok
        /\ \A i \in Publishes(ev) :
              /\ ev.effects[i].previousStatus = ev.current_status
              /\ ev.effects[i].newStatus = ev.new_status

C2_Witness ==
    /\ Evaluated
    /\ EventPublished(ev)
    /\ ev.new_status # ev.current_status
    /\ item.status = ev.new_status

RecoveryFromRed ==
    /\ Evaluated /\ ev.completed /\ ev.is_online
    /\ ev.current_status = "red" /\ ev.has_red_errors /\ ev.power > 0

\* C4 as stated: recovery from red computes green, and for a system the
\* stored lastRedErrorResolvedTime after the evaluation is the greatest
\* logDateTime of the red-classified messages.
C4_RecoveryStoresResolvedTime ==
    RecoveryFromRed =>
        /\ ev.new_status = "green"
        /\ ev.program = "status_polling" =>
              item.exists /\ item.lastRedErrorResolvedTime = ev.new_red_max

\* C4 amended: recovery from red computes green, and for a system whose
\* status write succeeds the stored lastRedErrorResolvedTime after the
\* evaluation is the greatest logDateTime of the red-classified messages;
\* when the write fails the stored record is the one from before.
C4_RecoveryStoresResolvedTimeWhenWritten ==
    RecoveryFromRed =>
        /\ ev.new_status = "green"
        /\ (ev.program = "status_polling" /\ WriteSucceeded(ev)) =>
              /\ item.exists
              /\ item.status = "green"
              /\ item.lastRedErrorResolvedTime = ev.new_red_max
        /\ (ev.program = "status_polling" /\ ~WriteSucceeded(ev)) =>
              item.exists /\ item.status = "red"

C4_Witness ==
    /\ RecoveryFromRed
    /\ ev.program = "status_polling"
    /\ WriteSucceeded(ev)
    /\ item.lastRedErrorResolvedTime = ev.new_red_max
    /\ ev.new_red_max.fmt = "api"

\* C5: entry into red.  An online entity with a new red error and power <= 0
\* is computed red whatever status was read, in both evaluators; red is never
\* computed when power > 0.
C5_EntryIntoRed ==
    (Evaluated /\ ev.completed /\ ev.is_online) =>
        /\ (ev.has_red_errors /\ ev.power <= 0) => ev.new_status = "red"
        /\ ev.power > 0 => ev.new_status # "red"

C5_Witness ==
    /\ Evaluated /\ ev.completed /\ ev.is_online
    /\ ev.has_red_errors /\ ev.power <= 0
    /\ ev.current_status = "offline"
    /\ ev.new_status = "red"

\* The case of C6: read as offline, now online with power 0 and no messages.
BackOnlineWithoutPower ==
    /\ Evaluated /\ ev.completed /\ ev.is_online
    /\ ev.current_status = "offline" /\ ev.power = 0 /\ ~ev.has_messages

\* C6 as stated: in that case the device-level evaluator keeps offline and
\* publishes nothing, the system-level evaluator computes green and makes
\* the publish call for offline->green.
C6_OfflineCarryOverAsymmetry ==
    BackOnlineWithoutPower =>
        IF ev.program = "device_status_polling"
        THEN ev.new_status = "offline" /\ Publishes(ev) = {}
        ELSE /\ ev.new_status = "green"
             /\ \E i \in Publishes(ev) :
                   /\ ev.effects[i].previousStatus = "offline"
                   /\ ev.effects[i].newStatus = "green"

\* C6 amended: in that case the device-level evaluator keeps offline and
\* publishes nothing; the system-level evaluator computes green and, when
\* its status write succeeds, makes the publish call for offline->green;
\* when the write fails it makes no publish call.
C6_OfflineCarryOverAsymmetryWhenWritten ==
    BackOnlineWithoutPower =>
        IF ev.program = "device_status_polling"
        THEN ev.new_status = "offline" /\ Publishes(ev) = {}
        ELSE /\ ev.new_status = "green"
             /\ WriteSucceeded(ev) =>
                   \E i \in Publishes(ev) :
                      /\ ev.effects[i].previousStatus = "offline"
                      /\ ev.effects[i].newStatus = "green"
             /\ ~WriteSucceeded(ev) => Publishes(ev) = {}

C6_Witness ==
    /\ BackOnlineWithoutPower
    /\ ev.program = "status_polling"
    /\ ev.stored_status = "offline"
    /\ EventPublished(ev)
    /\ item.status = "green"

C6_WitnessDevice ==
    /\ BackOnlineWithoutPower
    /\ ev.program = "device_status_polling"
    /\ ev.stored_status = "offline"
    /\ item.status = "offline"

\* C7 as stated (the same flowdata and messages evaluated twice in succession,
\* store and publisher working): the second evaluation computes the status
\* the first one computed and publishes nothing.
C7_Idempotence ==
    count = 2 =>
        /\ ev.new_status = first.new_status
        /\ Publishes(ev) = {}

\* C7 amended: the same, provided both evaluations classify the messages with
\* the same colour map (the classification service answers the second
\* evaluation as it answered the first, or the map is cached).
C7_IdempotenceSameClassification ==
    (count = 2 /\ first.color_map_empty = ev.color_map_empty) =>
        /\ ev.new_status = first.new_status
        /\ Publishes(ev) = {}

\* Two evaluations of red messages: the first publishes, the second does not.
C7_Witness ==
    /\ count = 2
    /\ first.has_red_errors
    /\ ~first.color_map_empty /\ ~ev.color_map_empty
    /\ EventPublished(first)
    /\ ev.new_status = first.new_status
    /\ Publishes(ev) = {}

\* The status computed from what was read when no message is red.
StatusWithoutRedErrors(prog, current_status, power) ==
    IF current_status = "red" /\ power <= 0 THEN "red"
    ELSE IF prog = "device_status_polling" /\ current_status = "offline" /\ power = 0
         THEN "offline"
         ELSE "green"

C9_WriteThenPublish ==
    Evaluated =>
        /\ \A i \in Publishes(ev) :
              /\ i > 1
              /\ ev.effects[i - 1].op = "put_item"
              /\ ev.effects[i - 1].ok
              /\ ev.effects[i - 1].newStatus = ev.effects[i].newStatus
        /\ (\E i \in Puts(ev) : ~ev.effects[i].ok) => Publishes(ev) = {}
        /\ (\E i \in Publishes(ev) : ~ev.effects[i].ok) =>
              /\ item.exists
              /\ item.status = ev.new_status
              /\ item.power = ev.power

\* A write that succeeded and a publish that failed.
C9_Witness ==
    /\ Evaluated
    /\ WriteSucceeded(ev)
    /\ \E i \in Publishes(ev) : ~ev.effects[i].ok
    /\ ev.stored_status # "none"
    /\ item.status = ev.new_status

\* Evaluation e met no failure: its read returned what was stored, the
\* classification service answered, its write and its publish went through.
Healthy(e) ==
    /\ NothingFailed(e)
    /\ e.supabase_up
    /\ e.stored_status \in {"none", e.current_status}

ListedEntities == DOMAIN cycle.inverters

\* C11: a failed evaluation is counted in the errors statistic and keeps no
\* other listed entity from being evaluated: no entity is ever evaluated
\* twice in a cycle, and when the cycle returns every listed entity has been
\* evaluated exactly once, each counted as processed and each failure counted
\* as an error.
C11_FailureIsolation ==
    cycle.pc \in {"batch", "returned"} =>
        /\ \A e \in ListedEntities : cycle.started[e] <= 1
        /\ cycle.pc = "returned" =>
              /\ \A e \in ListedEntities :
                    cycle.started[e] = 1 /\ cycle.state[e] = "collected"
              /\ cycle.stats.processed = Cardinality(ListedEntities)
              /\ cycle.stats.errors >= Cardinality({e \in ListedEntities : ~cycle.success[e]})

\* A cycle of more than one batch that returned although an evaluation of
\* its first batch had failed.
C11_Witness ==
    /\ cycle.pc = "returned"
    /\ Cardinality(ListedEntities) > batch_size
    /\ ~cycle.success[1]
    /\ cycle.started[Cardinality(ListedEntities)] = 1
    /\ cycle.stats.errors = 1

\* C12: the stored lastStatusChangeTime changes only in an evaluation whose
\* computed status differs from the status stored before; an evaluation that
\* leaves the status as it was leaves lastStatusChangeTime as it was.
C12_ChangeTimeOnlyOnChange ==
    [][(item.exists /\ item'.exists /\ item'.status = item.status) =>
          item'.lastStatusChangeTime = item.lastStatusChangeTime]_vars

\* lastRedErrorResolvedTime as stored: None while there is no item.
StoredResolvedTime(it) == IF it.exists THEN it.lastRedErrorResolvedTime ELSE NoTime

\* C13: over system-level evaluations the stored lastRedErrorResolvedTime is
\* never dropped and never moves backwards, and it changes only in an
\* evaluation that takes the system from stored red to green with power > 0.
C13_ResolvedTimeMonotone ==
    [][program = "status_polling" =>
          /\ StoredResolvedTime(item) # NoTime =>
                /\ StoredResolvedTime(item') # NoTime
                /\ ~StrGreater(StoredResolvedTime(item), StoredResolvedTime(item'))
          /\ StoredResolvedTime(item') # StoredResolvedTime(item) =>
                item.exists /\ item.status = "red" /\ item'.status = "green" /\ item'.power > 0]_vars

C15_RecoveryAdvancesResolvedTime ==
    /\ ev.program = "status_polling"
    /\ ev.completed /\ ev.has_red_errors /\ ev.power > 0
    /\ NothingFailed(ev)
    => /\ ev.new_status = "green"
       /\ StoredResolvedTime(item) = ev.new_red_max

\* The answers of script that are failures other than a 429.
Failures(script) == {i \in DOMAIN script : script[i] = "err"}

\* C16: in api_request a 429 is retried without being counted against the
\* retry budget: a call whose answers are any number of 429s followed by a
\* 200 returns that response, and a call gives up (raises) only after
\* MAX_RETRIES failures that are not 429s.
C16_RateLimitNotCounted ==
    call.script # <<>> =>
        /\ (\E n \in DOMAIN call.script :
               /\ \A i \in 1..(n - 1) : call.script[i] = "429"
               /\ call.script[n] = "200")
           => call.result = JsonBody
        /\ call.result = Raised => Cardinality(Failures(call.script)) >= MAX_RETRIES

\* C17: an evaluation that asks for the colour map while the cache is fresh
\* gets the cached map without a request to the classification service; when
\* the request of a refetch fails it gets the last map fetched successfully
\* if there is one, and the empty map only if no fetch ever succeeded.
C17_LastGoodColourMap ==
    [][ev' # ev /\ ev'.how # "notcalled" =>
          /\ CacheFresh(cache, now) =>
                ev'.how = "cached" /\ ~ev'.color_map_empty /\ cache' = cache
          /\ ev'.how = "failed" =>
                (ev'.color_map_empty <=> cache.codes = EmptyMap)]_vars

\* C18: when the fetch of the error messages of an online entity fails after
\* its retries, the evaluator (device-level and system-level alike) gets an
\* empty message list: the evaluation completes, computes the status that the
\* flowdata and the status read give without new errors, and persists it.
C18_MessagesFailureIsEmptyList ==
    /\ count >= 1
    /\ first.is_online /\ fixed.flowdata.data = "dict"
    /\ fixed.messages = Raised
    => /\ first.completed /\ ~first.raised
       /\ ~first.has_messages /\ ~first.has_red_errors
       /\ first.new_status =
             StatusWithoutRedErrors(first.program, first.current_status, first.power)
       /\ first.new_status # first.current_status => WriteSucceeded(first)

\* C19: a poll cycle whose scan of the store fails is reported upward by the
\* Lambda handler with a result other than 200; a 200 is returned only for a
\* cycle that could list its entities.
C19_ScanFailureReported ==
    cycle.pc = "returned" /\ ~cycle.scan_ok => cycle.statusCode # 200

\* The batches whose slice of the listing holds entity e.
BatchesOf(e) ==
    {k \in 0..(total_batches(Len(cycle.inverters)) - 1) :
        e \in Range(batch_inverters(cycle.inverters, k))}

BatchOf(e) == CHOOSE k \in BatchesOf(e) : TRUE

Running == {e \in ListedEntities : cycle.state[e] = "running"}

\* C20: the listed entities are cut into consecutive batches of at most
\* batch_size, each entity in exactly one batch; at most batch_size
\* evaluations run at a time; no evaluation of a later batch has started
\* while a worker of an earlier batch has not completed (successfully or not).
C20_BatchBarrier ==
    cycle.pc \in {"batch", "returned"} =>
        /\ \A k \in 0..(total_batches(Len(cycle.inverters)) - 1) :
              Len(batch_inverters(cycle.inverters, k)) \in 1..batch_size
        /\ \A e \in ListedEntities : Cardinality(BatchesOf(e)) = 1
        /\ \A e, f \in ListedEntities : e < f => BatchOf(e) <= BatchOf(f)
        /\ Cardinality(Running) <= batch_size
        /\ \A e, f \in ListedEntities :
              BatchOf(e) < BatchOf(f) /\ cycle.state[f] # "waiting"
              => cycle.state[e] \in {"done", "collected"}

\* The second batch is running, after a first batch in which an evaluation
\* failed; the listing does not fill its last batch.
C20_Witness ==
    /\ cycle.pc = "batch" /\ cycle.batch_num = 1
    /\ Len(cycle.inverters) % batch_size # 0
    /\ \E e \in ListedEntities : BatchOf(e) = 0 /\ ~cycle.success[e]
    /\ \E f \in CurrentBatch : cycle.state[f] = "running"

\* C21: under fair scheduling, with every external call returning or failing
\* within its timeout, a poll cycle that has listed its entities terminates
\* and returns its statistics, whatever evaluations fail.
C21_CycleTerminates ==
    (cycle.pc = "batch") ~> (cycle.pc = "returned" /\ cycle.statusCode = 200)

\* A cycle of several batches has returned with every evaluation failed.
C21_Witness ==
    /\ cycle.pc = "returned"
    /\ Cardinality(ListedEntities) > batch_size
    /\ \A e \in ListedEntities : ~cycle.success[e]
    /\ cycle.stats.errors = Cardinality(ListedEntities)

\* C22: the statistics lose no update under any interleaving of the workers
\* and the main thread: when a cycle ends, devices_processed is the number
\* of listed entities, each per-status counter is the number of evaluations
\* that computed that status, and status_changes is the number of change
\* events published.
C22_NoLostUpdates ==
    (cycle.pc = "returned" /\ "lock" \in DOMAIN cycle) =>
        /\ cycle.stats["devices_processed"] = Len(cycle.inverters)
        /\ \A st \in Statuses : cycle.stats[StatusKey(st)] = cycle.computed[st]
        /\ cycle.stats["status_changes"] = cycle.published
        /\ cycle.stats["errors"] = cycle.failed
        /\ cycle.stats["api_calls_made"] = 2 * Len(cycle.inverters)

\* A cycle of several batches ended in which two evaluations computed the
\* same status, two published and one failed.
C22_Witness ==
    /\ cycle.pc = "returned" /\ "lock" \in DOMAIN cycle
    /\ Len(cycle.inverters) > batch_size
    /\ cycle.published >= 2
    /\ \E st \in Statuses : cycle.computed[st] >= 2
    /\ cycle.failed >= 1

\* The places of token in the batch posted to the push gateway.
Pushes(token) == {i \in DOMAIN notify.batch : notify.batch[i] = token}

\* C23: for one change event each distinct push token is at most once in the
\* batch sent to the push gateway, however many users or device records
\* share it; a token shared by two users gets exactly one push.
C23_PushTokenOnce ==
    (notify.pc = "done" /\ notify.handler = "notify_user") =>
        /\ \A token \in PushTokens : Cardinality(Pushes(token)) <= 1
        /\ \A token \in PushTokens :
              (notify.posted /\ IsExpoToken(token) /\ InSeq(token, notify.all_expo_tokens))
              => Cardinality(Pushes(token)) = 1

\* Three users have four device records with a token or more, which hold two
\* distinct tokens between them, and a batch of these two went out.
C23_Witness ==
    /\ notify.pc = "done" /\ notify.handler = "notify_user"
    /\ Len(notify.user_ids) = 3
    /\ notify.stats.devices_found >= 4
    /\ Len(notify.all_expo_tokens) = 2
    /\ notify.posted /\ notify.batch = notify.all_expo_tokens

\* The technician_email read for the user at place i of user_ids holds a
\* character that is not a space.
HasNonSpace(email) == email.kind = "str" /\ \E k \in DOMAIN email.text : email.text[k] # Space

IncidentUsers == {notify.incidents[k].user_id : k \in DOMAIN notify.incidents}

\* C24: the fan-out creates an Incident only for an event carrying a deviceId
\* and only for a user other than the administrative user whose technician
\* email is not empty after trimming; an event without deviceId creates no
\* Incident, and a user without technician email gets none.
C24_IncidentOnlyWithTechnician ==
    notify.pc \in {"incidents", "tokens", "send", "done"} /\ notify.handler = "notify_user" =>
        /\ ~notify.hasDeviceId => notify.incidents = <<>>
        /\ AdminUser \notin IncidentUsers
        /\ \A i \in DOMAIN notify.profiles :
              notify.user_ids[i] \in IncidentUsers => HasNonSpace(notify.profiles[i])
        /\ Len(notify.incidents) = Cardinality(IncidentUsers)

\* The admin, a user whose technician email is blanks and a user with a
\* technician email: one Incident, for the last.
C24_Witness ==
    /\ notify.pc = "done" /\ notify.handler = "notify_user"
    /\ Len(notify.user_ids) = 3
    /\ \E i, j \in DOMAIN notify.profiles :
          /\ notify.profiles[i] = [kind |-> "str", text |-> <<" ">>]
          /\ notify.profiles[j] = [kind |-> "str", text |-> <<"a", " ">>]
          /\ IncidentUsers = {notify.user_ids[j]}

\* An event without deviceId was received and ended without an Incident.
C24_WitnessSystemEvent ==
    notify.pc = "done" /\ notify.handler = "notify_user" /\ ~notify.hasDeviceId

\* C25: whenever the fan-out persists an Incident for a user, the delayed
\* technician escalation for that incident and user is scheduled too; when
\* the store write or the scheduler registration fails after its retries,
\* the creation is reported as failed and is not counted as created.
C25_IncidentScheduledOrFailed ==
    notify.pc = "done" /\ notify.handler = "notify_user" =>
        /\ \A k \in DOMAIN notify.incidents :
              /\ notify.incidents[k].stored => notify.incidents[k].scheduled
              /\ notify.incidents[k].result
                    <=> (notify.incidents[k].stored /\ notify.incidents[k].scheduled)
        /\ notify.stats.incidents_created =
              Cardinality({k \in DOMAIN notify.incidents : notify.incidents[k].result})

\* The addresses configured for the user of an incident: the technician_email
\* of the profile, trimmed, when it is a string that is not blank.
ConfiguredAddresses(configured) == add_technician_email({}, configured)

EmailsTo(address) ==
    Cardinality({k \in DOMAIN notify.sent : notify.sent[k].to = address})

InvokedByScheduler ==
    /\ notify.pc = "returned"
    /\ notify.handler = "notify_technician"
    /\ "incident_id" \in DOMAIN notify.event

\* C26: when the scheduler has invoked the escalation handler with an incident
\* id and a user id and the handler has returned, the entity being red or
\* offline means exactly one email was sent to each technician address
\* configured for that user, and the entity being green means none was sent.
C26_EscalationEmailsTechnicians ==
    InvokedByScheduler =>
        IF notify.entity_status \in {"red", "offline"}
        THEN \A address \in ConfiguredAddresses(notify.configured) : EmailsTo(address) = 1
        ELSE notify.sent = <<>>


\* The logins of the last call that failed.
FailedLogins ==
    Cardinality({k \in 1..jwt.logins : jwt.script[k].kind # "token"})

\* C27: a call of get_jwt_token that finds a token cached before its expiry
\* returns that token without a login and leaves the cache alone; any other
\* call makes between one and MAX_RETRIES logins, a login that succeeds
\* caches its token with an expiry one hour after the call and returns it, and
\* a call whose MAX_RETRIES logins all fail raises; a call that raises leaves
\* the cache as it found it.
C27_TokenCache ==
    jwt.result.kind # "none" =>
        LET cached == [token |-> jwt.token, expires_at |-> jwt.expires_at]
            fresh == /\ jwt.before.token # 0
                     /\ jwt.before.expires_at # -1
                     /\ jwt.at < jwt.before.expires_at
        IN  IF fresh
            THEN /\ jwt.logins = 0
                 /\ jwt.result = [kind |-> "token", token |-> jwt.before.token]
                 /\ cached = jwt.before
            ELSE /\ jwt.logins \in 1..MAX_RETRIES
                 /\ jwt.result.kind = "token" =>
                        /\ jwt.script[jwt.logins] = jwt.result
                        /\ cached = [token |-> jwt.result.token,
                                      expires_at |-> jwt.at + JwtTTL]
                 /\ FailedLogins = MAX_RETRIES => jwt.result = Raised
                 /\ jwt.result = Raised => cached = jwt.before

\* A call at the expiry of the cached token whose MAX_RETRIES logins failed:
\* it raised and the expired token is still cached.
C27_Witness ==
    /\ jwt.before.token # 0
    /\ jwt.at = jwt.before.expires_at
    /\ jwt.logins = MAX_RETRIES
    /\ jwt.result = Raised
    /\ jwt.token = jwt.before.token

\* A call answered from the cache.
C27_WitnessCached ==
    /\ jwt.result.kind = "token"
    /\ jwt.logins = 0
    /\ jwt.at < jwt.expires_at


\* C28: the stored status changes only in an evaluation that found the
\* computed status different from the status it read and attempted to publish
\* the change, also when the read failed and the default green record stood
\* in for the stored one.
C28_StatusChangeHasEvent ==
    [][(item.exists /\ item'.exists /\ item'.status # item.status) =>
          /\ ev'.new_status # ev'.current_status
          /\ \E k \in DOMAIN ev'.effects : ev'.effects[k].op = "publish"]_vars


\* The first MAX_RETRIES answers of the server are 429s.
AlwaysRateLimited == \A i \in 1..MAX_RETRIES : call.script[i] = "429"

\* C29: a call of api_request makes MAX_RETRIES GETs at most, the ones
\* answered with 429 among them; when each of them is answered with 429 the
\* call returns None without raising, and the device evaluation that asked for
\* the flowdata records the device as offline with power 0.
C29_RateLimitedIsOffline ==
    call.script # <<>> =>
        /\ call.requests <= MAX_RETRIES
        /\ AlwaysRateLimited =>
              /\ call.requests = MAX_RETRIES
              /\ call.result = PyNone
              /\ ~Truthy(call.flowdata)
              /\ call.new_status = "offline"
              /\ call.power = 0

\* A call whose MAX_RETRIES GETs were all answered with 429, made for a
\* device whose flowdata, had it arrived, showed it online and producing.
C29_Witness ==
    /\ call.script # <<>>
    /\ AlwaysRateLimited
    /\ call.script[MAX_RETRIES + 1] = "200"
    /\ call.requests = MAX_RETRIES
    /\ call.new_status = "offline"


\* A step that is a device evaluation against the message log.
LoggedEvaluation ==
    /\ program = "device_status_polling"
    /\ now' = now
    /\ log' = log
    /\ "read_ok" \in DOMAIN ev'

\* The logged messages the classification table colours red.
RedMessages == {m \in log : IsRed(ColourMapOf(ErrorCodeRows), m.stateCode)}

\* The device is stored green, its only red errors were logged before its
\* lastUpdated, and the evaluation finds it online with power <= 0.
OldRedErrorThenNoPower ==
    /\ item.exists
    /\ item.status = "green"
    /\ item.lastUpdated # NoTime
    /\ RedMessages # {}
    /\ \A m \in RedMessages : m.logDateTime.t < item.lastUpdated.t
    /\ ev'.is_online
    /\ ev'.power <= 0

====
